---------------------------- MODULE Spec2Model ----------------------------
(***************************************************************************)
(* Model of the Odoo proxy (ImitRR/odoo-proxy-server-final).               *)
(*                                                                         *)
(* The repository holds two variants of the same express server:           *)
(*   "server"  src/server.js         upstream address taken from each      *)
(*                                   request body (odooConfig.url), token  *)
(*                                   normalized to "name=value; ..."       *)
(*   "env"     src/unnamed/part_000  upstream address taken from the       *)
(*                                   ODOO_URL environment variable, token  *)
(*                                   kept as the raw Set-Cookie list       *)
(* A run of the model is a run of one of them (variable variant).          *)
(*                                                                         *)
(* A handler runs without interruption up to its `await axios.post(...)`   *)
(* and, once the upstream call settles, from there to its end; so each     *)
(* handler is two actions: the part before the await and the part after.   *)
(*                                                                         *)
(* The requests of the model are those that reach the route: the cors      *)
(* middleware let them through (server.js answers a request from another   *)
(* Origin itself, lines 12-24) and express.json() parsed their body.       *)
(***************************************************************************)
EXTENDS Integers, Sequences, FiniteSets, Bags, TLC

VARIABLES
    variant,            \* which of the two source files is running
    API_KEY,            \* process.env.API_KEY
    ODOO_URL,           \* process.env.ODOO_URL
    odooSessionCookie,  \* the module-level `let odooSessionCookie`
    pend,               \* the handlers suspended at their await
    proc,               \* "up", or "down" once the node process has exited
    last,               \* the step just taken: request, upstream call, reply
    hist                \* history of the stored token (when hist.on)

vars == <<variant, API_KEY, ODOO_URL, odooSessionCookie, pend, proc, last, hist>>

(***************************************************************************)
(* Bounds.                                                                 *)
(***************************************************************************)
\* number of inbound requests that can be open at the same time
MaxInflight == 2

(***************************************************************************)
(* JavaScript scalars.  Strings stand for themselves; the values that are  *)
(* not strings are written in angle brackets.                              *)
(***************************************************************************)
Undef == "<undefined>"
False == "<false>"

\* JS truthiness of a scalar
Truthy(v) == v \notin {Undef, False, ""}

\* a || b
Or(a, b) == IF Truthy(a) THEN a ELSE b

(***************************************************************************)
(* Values that `error` fields carry: a string, an error object with its    *)
(* message (a scalar), or nothing.  response is the status of the error    *)
(* object's own response member, 0 when it has none.                       *)
(***************************************************************************)
NoVal     == [t |-> "undef", v |-> "", response |-> 0]
StrVal(s) == IF s = Undef THEN NoVal ELSE [t |-> "str", v |-> s, response |-> 0]
ObjVal(m) == [t |-> "obj", v |-> m, response |-> 0]
ObjResp(m, st) == [t |-> "obj", v |-> m, response |-> st]

TruthyVal(x) == x.t = "obj" \/ (x.t = "str" /\ x.v # "")

OrVal(a, b) == IF TruthyVal(a) THEN a ELSE b

\* x.message for a value x (undefined on a string or on nothing)
MessageOf(x) == IF x.t = "obj" THEN x.v ELSE Undef

(***************************************************************************)
(* Cookies.  A Set-Cookie value is a string, modelled as its sequence of   *)
(* characters; the response header `set-cookie` is a list of them, and the *)
(* empty list stands for the header being absent (node never delivers an   *)
(* empty list).                                                            *)
(***************************************************************************)
NoHeader == << >>

CookieA == <<"s", "=", "1">>
CookieB == <<"s", "=", "2", ";", " ", "P">>
CookieC == <<"t", "=", "3", ";", "P", ";", "H">>
CookieD == <<";", "P">>

SetCookieHeaders ==
    { NoHeader, <<CookieA>>, <<CookieB>>, <<CookieB, CookieC>>, <<CookieD>> }

\* the session token: null, a string (server.js) or a list (part_000)
NullTok    == [t |-> "null", v |-> << >>]
StrTok(s)  == [t |-> "str",  v |-> s]
ListTok(l) == [t |-> "list", v |-> l]

\* !odooSessionCookie is false: a non-empty string, or any array
TruthyTok(tok) == tok.t = "list" \/ (tok.t = "str" /\ tok.v # << >>)

\* no Cookie header on an upstream request
NoCookie == [t |-> "none", v |-> << >>]

(***************************************************************************)
(* cookie.split(';')[0] : the characters before the first ';'              *)
(***************************************************************************)
RECURSIVE SplitFirst(_)
SplitFirst(s) ==
    IF s = << >> \/ Head(s) = ";" THEN << >>
    ELSE <<Head(s)>> \o SplitFirst(Tail(s))

\* list.map(f), for the one f the code maps
RECURSIVE MapSplitFirst(_)
MapSplitFirst(l) ==
    IF l = << >> THEN << >>
    ELSE <<SplitFirst(Head(l))>> \o MapSplitFirst(Tail(l))

\* list.join('; ')
RECURSIVE Join(_)
Join(l) ==
    IF l = << >> THEN << >>
    ELSE IF Len(l) = 1 THEN l[1]
    ELSE l[1] \o <<";", " ">> \o Join(Tail(l))

\* a token of the whole Set-Cookie values, attributes included
NormalizeCookiesKeepAll(hdr) == Join(hdr)

\* setCookieHeader.map(cookie => cookie.split(';')[0]).join('; ')
NormalizeCookies(hdr) == Join(MapSplitFirst(hdr))

(***************************************************************************)
(* JSON bodies, of upstream responses and of the proxy's replies alike:    *)
(* an object with the fields the code reads or writes (absent fields are   *)
(* undefined), the literal null, a body that is text, or the empty body,   *)
(* which axios delivers as the empty string.                               *)
(***************************************************************************)
NoJson == [t |-> "none", result |-> Undef, error |-> NoVal, details |-> Undef]
JsonNull == [t |-> "null", result |-> Undef, error |-> NoVal, details |-> Undef]
JsonText == [t |-> "text", result |-> Undef, error |-> NoVal, details |-> Undef]
JsonEmpty == [t |-> "empty", result |-> Undef, error |-> NoVal, details |-> Undef]
HtmlPage == [t |-> "html", result |-> Undef, error |-> NoVal, details |-> Undef]
Json(r, e, d) == [t |-> "obj", result |-> r, error |-> e, details |-> d]

\* res.json(data): the body sent for data.  A JSON value is sent as it is; a
\* text that was no JSON is sent as a JSON string, that is, quoted, the empty
\* text included.
resJson(data) ==
    IF data.t = "text" THEN [data EXCEPT !.t = "quoted"]
    ELSE IF data.t = "empty" THEN [data EXCEPT !.t = "quoted empty"]
    ELSE data

\* the result member of an upstream body: absent, an object with or without
\* a truthy uid, or a list of records
ResUid7   == "<{uid:7}>"
ResNoUid  == "<{uid:false}>"
ResList   == "<[...]>"

\* data.result && data.result.uid
ResultUid(data) ==
    CASE data.result = ResUid7  -> "7"
      [] data.result = ResNoUid -> False
      [] OTHER                  -> Undef

UpstreamBodies ==
    { Json(ResUid7, NoVal, Undef),
      Json(ResNoUid, NoVal, Undef),
      Json(ResList, NoVal, Undef),
      Json(Undef, ObjVal("Access Denied"), Undef),
      Json(Undef, ObjVal(Undef), Undef),
      Json(Undef, ObjResp("Access Denied", 403), Undef),
      Json(Undef, NoVal, Undef),
      JsonNull,
      JsonEmpty,
      JsonText }

(***************************************************************************)
(* How an upstream call settles: a 2xx response (axios resolves), another  *)
(* status (axios rejects with error.response set), or no response at all   *)
(* (timeout after 10 s, connection refused: axios rejects without          *)
(* error.response).                                                        *)
(***************************************************************************)
Resolved(st, hdr, data) ==
    [k |-> "2xx", status |-> st, setCookie |-> hdr, data |-> data, message |-> Undef]
Rejected(st, data) ==
    [k |-> "non2xx", status |-> st, setCookie |-> NoHeader, data |-> data,
     message |-> "Request failed"]
Failed(msg) ==
    [k |-> "fail", status |-> 0, setCookie |-> NoHeader, data |-> NoJson, message |-> msg]
NoOutcome ==
    [k |-> "none", status |-> 0, setCookie |-> NoHeader, data |-> NoJson, message |-> Undef]

TimeoutMessage == "timeout of 10000ms exceeded"

Outcomes ==
    { Resolved(200, h, d) : h \in SetCookieHeaders, d \in UpstreamBodies }
    \cup { Resolved(201, NoHeader, Json(ResList, NoVal, Undef)) }
    \cup { Rejected(st, d) : st \in {404, 502},
                             d \in { Json(Undef, ObjVal("Access Denied"), Undef),
                                     JsonNull, JsonText } }
    \cup { Failed(m) : m \in {TimeoutMessage, "connect ECONNREFUSED", ""} }

\* An address that is no URL can only fail at transport level.  The handler
\* of /api/odoo never reads the response headers, so one header stands for all.
OutcomesFor(call) ==
    IF ~Truthy(call.base) THEN { o \in Outcomes : o.k = "fail" }
    ELSE IF call.path = "/web/dataset/call_kw"
    THEN { o \in Outcomes : o.setCookie \in {NoHeader, <<CookieA>>} }
    ELSE Outcomes

(***************************************************************************)
(* Inbound requests: the X-API-Key header and the JSON body (req.body).    *)
(* cfg says whether req.body.odooConfig is there; the other members are    *)
(* scalars, Undef when absent.                                             *)
(***************************************************************************)
HeaderKeys == { Undef, "", "k1", "k2" }

Body(cfg, url, db, username, password, uid) ==
    [cfg |-> cfg, url |-> url, db |-> db, username |-> username,
     password |-> password, uid |-> uid, model |-> "res.partner"]

NoBody == Body(FALSE, Undef, Undef, Undef, Undef, Undef)

LoginBodies ==
    { Body(TRUE, u, "db", "admin", "pw", Undef) : u \in {Undef, "", "http://a", "http://b"} }
    \cup { Body(TRUE, "http://a", d, "admin", "pw", Undef) : d \in {Undef, ""} }
    \cup { Body(TRUE, "http://a", "db", n, "pw", Undef) : n \in {Undef, ""} }
    \cup { Body(TRUE, "http://a", "db", "admin", w, Undef) : w \in {Undef, ""} }
    \cup { NoBody }

OdooBodies ==
    { Body(TRUE, u, Undef, Undef, Undef, "7") : u \in {Undef, "", "http://a", "http://b"} }
    \cup { Body(TRUE, "http://a", Undef, Undef, Undef, Undef),
           Body(FALSE, Undef, Undef, Undef, Undef, "7"),
           NoBody }

(***************************************************************************)
(* An upstream request (one axios.post): its address, path, Cookie header  *)
(* and the params of its JSON-RPC envelope.  The envelope's id is left     *)
(* out: 1 in server.js, req.body.id or a random number in part_000.        *)
(***************************************************************************)
AuthPath == "/web/session/authenticate"
CallPath == "/web/dataset/call_kw"

Call(base, path, cookie, params) ==
    [base |-> base, path |-> path, cookie |-> cookie, params |-> params]
NoCall == Call(Undef, "none", NoCookie, << >>)

\* a reply of the proxy; status 0: none yet; Unhandled: the handler threw
Reply(st, body) == [status |-> st, body |-> body]
NoReply   == Reply(0, NoJson)
Unhandled == Reply(-1, NoJson)

ErrorBody(e) == Json(Undef, e, Undef)

\* what a catch block receives: an axios error (error.response set on a
\* non-2xx status) or a TypeError raised by the handler itself
AxiosError(o) ==
    [response |-> o.k = "non2xx", status |-> o.status, data |-> o.data,
     message |-> o.message]
TypeError(msg) ==
    [response |-> FALSE, status |-> 0, data |-> NoJson, message |-> msg]

(***************************************************************************)
(* verifyApiKey: TRUE when next() is called, FALSE when it answers 403.    *)
(***************************************************************************)
\* a guard that only asks for some key
verifyApiKeyPresent(clientKey) == Truthy(clientKey)

verifyApiKey(clientKey) ==
    ~(~Truthy(clientKey) \/ clientKey # API_KEY)

Forbidden == Reply(403, ErrorBody(StrVal("Unauthorized: Invalid API key")))

(***************************************************************************)
(* The catch blocks.  error.response.data.error of a null body throws      *)
(* inside the catch block, and nothing catches that.                       *)
(***************************************************************************)
Catch(exc, apiDefault, internalDefault) ==
    IF exc.response
    THEN IF exc.data.t = "null"
         THEN Unhandled
         ELSE Reply(exc.status, ErrorBody(OrVal(exc.data.error, StrVal(apiDefault))))
    ELSE Reply(500, ErrorBody(StrVal(Or(exc.message, internalDefault))))

CatchLoginServer(exc) ==
    Catch(exc, "Odoo login API error",
          "Internal Server Error during Odoo login API call")
CatchOdooServer(exc) ==
    Catch(exc, "Odoo API error", "Internal Server Error during Odoo API call")
CatchLoginEnv(exc) ==
    Catch(exc, "Odoo login error", "Internal Server Error during login")
CatchOdooEnv(exc) ==
    Catch(exc, "Odoo API error", "Internal Server Error during Odoo API call")

(***************************************************************************)
(* src/server.js, POST /api/login.                                         *)
(***************************************************************************)
\* a check that forgets the password
MissingLoginConfigServerNoPassword(body) ==
    \/ ~body.cfg
    \/ ~Truthy(body.db)
    \/ ~Truthy(body.username)
    \/ ~Truthy(body.url)

\* the check of req.body.odooConfig before anything is sent
MissingLoginConfigServer(body) ==
    \/ ~body.cfg
    \/ ~Truthy(body.db)
    \/ ~Truthy(body.username)
    \/ ~Truthy(body.password)
    \/ ~Truthy(body.url)

\* the handler up to its await: a reply, or the upstream call it waits on
LoginBeforeServer(body) ==
    IF MissingLoginConfigServer(body)
    THEN [reply |-> Reply(400, ErrorBody(StrVal(
                       "Missing Odoo configuration (url, db, username, password)"))),
          call  |-> NoCall]
    ELSE [reply |-> NoReply,
          call  |-> Call(body.url, AuthPath, NoCookie,
                         <<body.db, body.username, body.password>>)]

\* a capture that appends the new cookies to the token already held
LoginStoreServerMerge(tok, o) ==
    IF o.k = "2xx" /\ o.setCookie # NoHeader
    THEN IF tok.t = "str"
         THEN StrTok(Join(<<tok.v, NormalizeCookies(o.setCookie)>>))
         ELSE StrTok(NormalizeCookies(o.setCookie))
    ELSE tok

\* a capture that drops the token when the call brought none
LoginStoreServerClear(tok, o) ==
    IF o.k = "2xx" /\ o.setCookie # NoHeader
    THEN StrTok(NormalizeCookies(o.setCookie))
    ELSE NullTok

\* a capture that keeps the token already held: the first write wins
LoginStoreServerKeepFirst(tok, o) ==
    IF o.k = "2xx" /\ o.setCookie # NoHeader /\ tok.t = "null"
    THEN StrTok(NormalizeCookies(o.setCookie))
    ELSE tok

\* the value of odooSessionCookie after the capture of the response's cookies
LoginStoreServer(tok, o) ==
    IF o.k = "2xx" /\ o.setCookie # NoHeader
    THEN StrTok(NormalizeCookies(o.setCookie))
    ELSE tok

\* the reply once the upstream call has settled
LoginReplyServer(o) ==
    IF o.k = "2xx"
    THEN IF o.data.t = "null"
         THEN CatchLoginServer(TypeError("Cannot read properties of null"))
         ELSE IF Truthy(ResultUid(o.data))
         THEN Reply(200, Json(ResultUid(o.data), NoVal, Undef))
         ELSE IF TruthyVal(o.data.error)
         THEN Reply(401, ErrorBody(StrVal(
                  Or(MessageOf(o.data.error), "Odoo authentication failed"))))
         ELSE Reply(500, ErrorBody(StrVal("Unexpected Odoo login response")))
    ELSE CatchLoginServer(AxiosError(o))

(***************************************************************************)
(* src/server.js, POST /api/odoo.                                          *)
(***************************************************************************)
\* the two checks in the other order
OdooBeforeServerUrlFirst(tok, body) ==
    IF ~body.cfg \/ ~Truthy(body.url)
    THEN [reply |-> Reply(400, ErrorBody(StrVal("Missing Odoo URL in request body"))),
          call  |-> NoCall]
    ELSE IF ~TruthyTok(tok)
    THEN [reply |-> Reply(401, ErrorBody(StrVal(
                       "Unauthorized: No active Odoo session. Please log in."))),
          call  |-> NoCall]
    ELSE [reply |-> NoReply,
          call  |-> Call(body.url, CallPath, tok, <<body.model>>)]

\* a call sent without its Cookie header
OdooBeforeServerNoCookie(tok, body) ==
    IF ~TruthyTok(tok)
    THEN [reply |-> Reply(401, ErrorBody(StrVal(
                       "Unauthorized: No active Odoo session. Please log in."))),
          call  |-> NoCall]
    ELSE IF ~body.cfg \/ ~Truthy(body.url)
    THEN [reply |-> Reply(400, ErrorBody(StrVal("Missing Odoo URL in request body"))),
          call  |-> NoCall]
    ELSE [reply |-> NoReply,
          call  |-> Call(body.url, CallPath, NoCookie, <<body.model>>)]

OdooBeforeServer(tok, body) ==
    IF ~TruthyTok(tok)
    THEN [reply |-> Reply(401, ErrorBody(StrVal(
                       "Unauthorized: No active Odoo session. Please log in."))),
          call  |-> NoCall]
    ELSE IF ~body.cfg \/ ~Truthy(body.url)
    THEN [reply |-> Reply(400, ErrorBody(StrVal("Missing Odoo URL in request body"))),
          call  |-> NoCall]
    ELSE [reply |-> NoReply,
          call  |-> Call(body.url, CallPath, tok, <<body.model>>)]

\* a relay that answers like the login does, with the result member only
OdooReplyServerResultOnly(o) ==
    IF o.k = "2xx"
    THEN Reply(200, Json(o.data.result, NoVal, Undef))
    ELSE CatchOdooServer(AxiosError(o))

OdooReplyServer(o) ==
    IF o.k = "2xx"
    THEN Reply(200, resJson(o.data))
    ELSE CatchOdooServer(AxiosError(o))

(***************************************************************************)
(* src/unnamed/part_000, POST /api/login.                                  *)
(***************************************************************************)
MissingLoginConfigEnv(body) ==
    \/ ~body.cfg
    \/ ~Truthy(body.db)
    \/ ~Truthy(body.username)
    \/ ~Truthy(body.password)

LoginBeforeEnv(body) ==
    IF MissingLoginConfigEnv(body)
    THEN [reply |-> Reply(400, ErrorBody(StrVal("Missing required fields for Odoo login"))),
          call  |-> NoCall]
    ELSE [reply |-> NoReply,
          call  |-> Call(ODOO_URL, AuthPath, NoCookie,
                         <<body.db, body.username, body.password>>)]

LoginStoreEnv(tok, o) ==
    IF o.k = "2xx" /\ o.setCookie # NoHeader
    THEN ListTok(o.setCookie)
    ELSE tok

\* `error` is response.data && response.data.error: null for the body null,
\* the empty string for the empty body, undefined for a body without an error
\* member.  `error.response` throws on null and on undefined, inside the try
\* block; on an error object it is that object's response member.
LoginReplyEnv(o) ==
    IF o.k = "2xx"
    THEN IF o.data.t \notin {"null", "empty"} /\ Truthy(ResultUid(o.data))
         THEN Reply(200, Json(ResultUid(o.data), NoVal, Undef))
         ELSE IF o.data.t = "null"
         THEN CatchLoginEnv(TypeError("Cannot read properties of null"))
         ELSE IF o.data.t = "empty"
         THEN Reply(500, Json(Undef, StrVal("Authentication failed"),
                         "Authentication failed"))
         ELSE IF o.data.error.t = "undef"
         THEN CatchLoginEnv(TypeError("Cannot read properties of undefined"))
         ELSE Reply(IF o.data.error.response # 0 THEN o.data.error.response ELSE 500,
                    Json(Undef, StrVal("Authentication failed"),
                         Or(MessageOf(o.data.error), "Authentication failed")))
    ELSE CatchLoginEnv(AxiosError(o))

(***************************************************************************)
(* src/unnamed/part_000, POST /api/odoo.                                   *)
(***************************************************************************)
\* a handler without the check of ODOO_URL
OdooBeforeEnvNoUrlCheck(tok, body) ==
    IF ~Truthy(body.uid)
    THEN [reply |-> Reply(400, ErrorBody(StrVal(
                       "User ID (UID) is required for Odoo API calls."))),
          call  |-> NoCall]
    ELSE [reply |-> NoReply,
          call  |-> Call(ODOO_URL, CallPath,
                         IF TruthyTok(tok) THEN tok ELSE NoCookie,
                         <<body.model>>)]

OdooBeforeEnv(tok, body) ==
    IF ~Truthy(ODOO_URL)
    THEN [reply |-> Reply(500, ErrorBody(StrVal(
                       "Server configuration error: Odoo URL not set."))),
          call  |-> NoCall]
    ELSE IF ~Truthy(body.uid)
    THEN [reply |-> Reply(400, ErrorBody(StrVal(
                       "User ID (UID) is required for Odoo API calls."))),
          call  |-> NoCall]
    ELSE [reply |-> NoReply,
          call  |-> Call(ODOO_URL, CallPath,
                         IF TruthyTok(tok) THEN tok ELSE NoCookie,
                         <<body.model>>)]

OdooReplyEnv(o) ==
    IF o.k = "2xx"
    THEN Reply(200, resJson(o.data))
    ELSE CatchOdooEnv(AxiosError(o))

(***************************************************************************)
(* State.  pend is the bag of handlers suspended at their await, each with *)
(* the upstream call it waits on (st "login" or "odoo"), and of requests   *)
(* whose handler threw and that will never be answered (st "hung").        *)
(***************************************************************************)
Waiting(kind, call) == [st |-> kind, call |-> call]

Event(ev, kind, key, body, o, reply, call, prevTok) ==
    [ev |-> ev, kind |-> kind, key |-> key, body |-> body, out |-> o,
     status |-> reply.status, rbody |-> reply.body, call |-> call,
     prevTok |-> prevTok]

\* History of the token, kept only in the runs that start with hist.on:
\* issuer is the address of the login whose response set the stored token,
\* bare says that a login has answered 200 without a Set-Cookie header since
\* a token was last stored.
NoHist == [on |-> FALSE, bare |-> FALSE, issuer |-> Undef]

HistAfterLogin(h, w, o, reply) ==
    IF ~h.on THEN h
    ELSE IF o.k = "2xx" /\ o.setCookie # NoHeader
    THEN [on |-> TRUE, bare |-> FALSE, issuer |-> w.call.base]
    ELSE IF reply.status = 200
    THEN [h EXCEPT !.bare = TRUE]
    ELSE h

Init ==
    /\ variant \in {"server", "env"}
    /\ API_KEY \in {Undef, "k1"}
    /\ ODOO_URL \in (IF variant = "env" THEN {Undef, "http://odoo"} ELSE {Undef})
    /\ odooSessionCookie = NullTok
    /\ pend = EmptyBag
    /\ proc = "up"
    /\ last = Event("init", "none", Undef, NoBody, NoOutcome, NoReply, NoCall, NullTok)
    /\ hist = NoHist

(***************************************************************************)
(* A request arrives and its handler runs up to the await (res is the      *)
(* reply it gives or the upstream call it starts).                         *)
(***************************************************************************)
Receive(kind, key, body, res) ==
    /\ proc = "up"
    /\ BagCardinality(pend) < MaxInflight
    /\ pend' = IF res.call = NoCall THEN pend
               ELSE pend (+) SetToBag({Waiting(kind, res.call)})
    /\ last' = Event("recv", kind, key, body, NoOutcome, res.reply, res.call,
                     odooSessionCookie)
    /\ UNCHANGED <<variant, API_KEY, ODOO_URL, odooSessionCookie, proc, hist>>

Rejected403 == [reply |-> Forbidden, call |-> NoCall]

(***************************************************************************)
(* The upstream call of the suspended handler w settles as o and the       *)
(* handler runs to its end: tok is the token it leaves, reply what it      *)
(* answers.  An exception that escapes the handler is a rejected promise:  *)
(* express 4 ignores it (the request is never answered, and node >= 15     *)
(* exits on the unhandled rejection), express 5 answers with its error     *)
(* page.                                                                   *)
(***************************************************************************)
UnhandledWays == {"hang", "exit", "framework"}

\* The framework's answer to a handler that threw.  res.status(
\* error.response.status) has run before the throw, on the same line, and the
\* error page keeps a status code of 400 to 599 that the response already has.
ErrorPage(o) ==
    Reply(IF o.status \in 400..599 THEN o.status ELSE 500, HtmlPage)

\* a handler that starts the upstream call again when it failed without a
\* response
SettleRetry(w, kind, o, tok, reply, h) ==
    /\ proc = "up"
    /\ BagIn(w, pend)
    /\ w.st = kind
    /\ o \in OutcomesFor(w.call)
    /\ odooSessionCookie' = tok
    /\ hist' = h
    /\ pend' = IF o.k = "fail" THEN pend ELSE pend (-) SetToBag({w})
    /\ proc' = "up"
    /\ last' = Event("settle", kind, Undef, NoBody, o,
                     IF o.k = "fail" \/ reply = Unhandled THEN NoReply ELSE reply,
                     w.call, odooSessionCookie)
    /\ UNCHANGED <<variant, API_KEY, ODOO_URL>>

Settle(w, kind, o, tok, reply, h) ==
    /\ proc = "up"
    /\ BagIn(w, pend)
    /\ w.st = kind
    /\ o \in OutcomesFor(w.call)
    /\ odooSessionCookie' = tok
    /\ hist' = h
    /\ \E how \in (IF reply = Unhandled THEN UnhandledWays ELSE {"handled"}) :
         /\ pend' = IF how = "hang"
                    THEN (pend (-) SetToBag({w})) (+) SetToBag({Waiting("hung", NoCall)})
                    ELSE IF how = "exit" THEN pend
                    ELSE pend (-) SetToBag({w})
         /\ proc' = IF how = "exit" THEN "down" ELSE "up"
         /\ last' = Event(IF how = "handled" THEN "settle" ELSE how, kind, Undef,
                          NoBody, o,
                          IF how = "handled" THEN reply
                          ELSE IF how = "framework" THEN ErrorPage(o)
                          ELSE NoReply,
                          w.call, odooSessionCookie)
    /\ UNCHANGED <<variant, API_KEY, ODOO_URL>>

(***************************************************************************)
(* The handlers.                                                           *)
(***************************************************************************)
LoginServer(key, body) ==
    /\ variant = "server"
    /\ Receive("login", key, body,
               IF verifyApiKey(key) THEN LoginBeforeServer(body) ELSE Rejected403)

LoginServerResume(w, o) ==
    /\ variant = "server"
    /\ Settle(w, "login", o, LoginStoreServer(odooSessionCookie, o), LoginReplyServer(o),
              HistAfterLogin(hist, w, o, LoginReplyServer(o)))

OdooServer(key, body) ==
    /\ variant = "server"
    /\ Receive("odoo", key, body,
               IF verifyApiKey(key) THEN OdooBeforeServer(odooSessionCookie, body)
               ELSE Rejected403)

\* a forwarded call that captures the cookies of its response as a login does
OdooServerResumeRefresh(w, o) ==
    /\ variant = "server"
    /\ Settle(w, "odoo", o, LoginStoreServer(odooSessionCookie, o), OdooReplyServer(o), hist)

OdooServerResume(w, o) ==
    /\ variant = "server"
    /\ Settle(w, "odoo", o, odooSessionCookie, OdooReplyServer(o), hist)

LoginEnv(key, body) ==
    /\ variant = "env"
    /\ Receive("login", key, body,
               IF verifyApiKey(key) THEN LoginBeforeEnv(body) ELSE Rejected403)

LoginEnvResume(w, o) ==
    /\ variant = "env"
    /\ Settle(w, "login", o, LoginStoreEnv(odooSessionCookie, o), LoginReplyEnv(o),
              HistAfterLogin(hist, w, o, LoginReplyEnv(o)))

OdooEnv(key, body) ==
    /\ variant = "env"
    /\ Receive("odoo", key, body,
               IF verifyApiKey(key) THEN OdooBeforeEnv(odooSessionCookie, body)
               ELSE Rejected403)

OdooEnvResume(w, o) ==
    /\ variant = "env"
    /\ Settle(w, "odoo", o, odooSessionCookie, OdooReplyEnv(o), hist)

Next ==
    \/ \E key \in HeaderKeys, body \in LoginBodies : LoginServer(key, body)
    \/ \E w \in BagToSet(pend), o \in Outcomes : LoginServerResume(w, o)
    \/ \E key \in HeaderKeys, body \in OdooBodies : OdooServer(key, body)
    \/ \E w \in BagToSet(pend), o \in Outcomes : OdooServerResume(w, o)
    \/ \E key \in HeaderKeys, body \in LoginBodies : LoginEnv(key, body)
    \/ \E w \in BagToSet(pend), o \in Outcomes : LoginEnvResume(w, o)
    \/ \E key \in HeaderKeys, body \in OdooBodies : OdooEnv(key, body)
    \/ \E w \in BagToSet(pend), o \in Outcomes : OdooEnvResume(w, o)

Spec == Init /\ [][Next]_vars

\* the same program with a configured key, its token history recorded
InitHist ==
    /\ variant \in {"server", "env"}
    /\ API_KEY = "k1"
    /\ ODOO_URL \in (IF variant = "env" THEN {Undef, "http://odoo"} ELSE {Undef})
    /\ odooSessionCookie = NullTok
    /\ pend = EmptyBag
    /\ proc = "up"
    /\ last = Event("init", "none", Undef, NoBody, NoOutcome, NoReply, NoCall, NullTok)
    /\ hist = [on |-> TRUE, bare |-> FALSE, issuer |-> Undef]

HistSpec == InitHist /\ [][Next]_vars

(***************************************************************************)
(* The claims.  last describes the step just taken: a request that arrived *)
(* and was answered or sent upstream (ev "recv"), or an upstream call that *)
(* settled and the end of its handler (ev "settle", or "hang", "exit",     *)
(* "framework" when the handler threw); last.prevTok is the stored token   *)
(* right before that step.                                                 *)
(***************************************************************************)
Arrived(kind) == last.ev = "recv" /\ last.kind = kind
Settled(kind) == last.ev \in {"settle", "hang", "exit", "framework"} /\ last.kind = kind
Dispatched == last.ev = "recv" /\ last.call # NoCall

\* the key sent is the configured secret
KeyIsSecret == last.key # Undef /\ last.key # "" /\ last.key = API_KEY

\* no token is held: null, or the empty string
NoTokenHeld(tok) == tok.t = "null" \/ (tok.t = "str" /\ tok.v = << >>)

\* the name=value pairs of the Set-Cookie headers of the model, written out
ExpectedPairs(hdr) ==
    CASE hdr = <<CookieA>>          -> <<"s", "=", "1">>
      [] hdr = <<CookieB>>          -> <<"s", "=", "2">>
      [] hdr = <<CookieB, CookieC>> -> <<"s", "=", "2", ";", " ", "t", "=", "3">>
      [] hdr = <<CookieD>>          -> << >>

\* C1: a request to /api/login or /api/odoo whose X-API-Key is absent, empty
\* or not the configured secret is answered 403, starts no upstream call and
\* leaves the stored token as it was, whatever the token and the body are.
C1_InvalidKeyIs403 ==
    ((Arrived("login") \/ Arrived("odoo")) /\ ~KeyIsSecret)
        => /\ last.status = 403
           /\ last.call = NoCall
           /\ odooSessionCookie = last.prevTok

C1_Witness ==
    /\ Arrived("odoo")
    /\ API_KEY = "k1"
    /\ last.key = "k2"
    /\ last.body.cfg
    /\ last.status = 403
    /\ ~NoTokenHeld(odooSessionCookie)

\* C2: a login that upstream answers 2xx without result.uid is answered 401
\* or 500 and leaves the stored token exactly as it was before, also when the
\* upstream response carried a Set-Cookie header.
C2_NoUidLeavesToken ==
    (Settled("login") /\ last.out.k = "2xx" /\ ~Truthy(ResultUid(last.out.data)))
        => /\ last.status \in {401, 500}
           /\ odooSessionCookie = last.prevTok

\* C3: after a login answered 200, whose upstream response carried Set-Cookie
\* headers, the stored token is the token of that response alone and nothing
\* of the token held before remains: in src/server.js the name=value pairs of
\* the header joined by "; ", in part_000 the header as it was received.
C3_LastLoginWins ==
    (Settled("login") /\ last.status = 200 /\ last.out.setCookie # NoHeader)
        => odooSessionCookie =
               IF variant = "server"
               THEN StrTok(ExpectedPairs(last.out.setCookie))
               ELSE ListTok(last.out.setCookie)

C3_Witness ==
    /\ variant = "server"
    /\ Settled("login")
    /\ last.status = 200
    /\ last.prevTok = StrTok(<<"s", "=", "1">>)
    /\ last.out.setCookie = <<CookieB, CookieC>>
    /\ odooSessionCookie = StrTok(<<"s", "=", "2", ";", " ", "t", "=", "3">>)

\* C4: a login whose upstream response has a uid but no Set-Cookie header is
\* answered 200 with the uid, and every forwarded call sent upstream after it,
\* until a login stores a token, carries no Cookie.
C4_BareLoginMeansNoCookie ==
    /\ (Settled("login") /\ last.out.k = "2xx" /\ last.out.setCookie = NoHeader
            /\ Truthy(ResultUid(last.out.data)))
           => (last.status = 200 /\ last.rbody = Json(ResultUid(last.out.data), NoVal, Undef))
    /\ (hist.bare /\ Arrived("odoo") /\ Dispatched)
           => last.call.cookie = NoCookie

\* C5: the Cookie header of an upstream call_kw request is the token held in
\* odooSessionCookie at the moment the forwarded call is sent (no header when
\* none is held), and the requests already in flight keep the Cookie they were
\* sent with, whatever logins complete in the meantime.
C5_CookieIsTokenAtDispatch ==
    [][ \A w \in BagToSet(pend') :
          w.st = "odoo"
            => \/ BagIn(w, pend) /\ CopiesIn(w, pend') <= CopiesIn(w, pend)
               \/ /\ last'.ev = "recv"
                  /\ last'.call = w.call
                  /\ w.call.cookie = IF NoTokenHeld(odooSessionCookie)
                                     THEN NoCookie
                                     ELSE odooSessionCookie ]_vars

\* a forwarded call still in flight with the token of an earlier login, while
\* a later login has replaced the stored token
C5_Witness ==
    /\ Settled("login")
    /\ last.status = 200
    /\ odooSessionCookie = StrTok(<<"s", "=", "2">>)
    /\ \E w \in BagToSet(pend) :
          w.st = "odoo" /\ w.call.cookie = StrTok(<<"s", "=", "1">>)

\* C6: in src/server.js a forwarded call with the right key that arrives while
\* no token is held is answered 401 and starts no upstream call, whatever its
\* body is.
C6_NoTokenIs401 ==
    (variant = "server" /\ Arrived("odoo") /\ KeyIsSecret /\ NoTokenHeld(last.prevTok))
        => /\ last.status = 401
           /\ last.call = NoCall

C6_Witness ==
    /\ variant = "server"
    /\ Arrived("odoo")
    /\ KeyIsSecret
    /\ odooSessionCookie = NullTok
    /\ ~last.body.cfg
    /\ last.status = 401

\* C7: a login whose upstream call times out or fails at transport level is
\* answered 500 and leaves the stored token as it was.
C7_LoginTransportFailure ==
    (Settled("login") /\ last.out.k = "fail")
        => /\ last.status = 500
           /\ odooSessionCookie = last.prevTok

C7_Witness ==
    /\ Settled("login")
    /\ last.out = Failed(TimeoutMessage)
    /\ last.status = 500
    /\ ~NoTokenHeld(last.prevTok)
    /\ odooSessionCookie = last.prevTok

\* C8, as claimed: every forwarded call whose upstream call returns 2xx is
\* answered 200 with a body identical to the upstream body.
C8_ForwardVerbatimEvery ==
    (Settled("odoo") /\ last.out.k = "2xx")
        => /\ last.status = 200
           /\ last.rbody = last.out.data

\* C8, amended: every forwarded call whose upstream call returns 2xx is
\* answered 200; with that body, member for member, when the upstream body is
\* JSON (a result envelope, an error envelope or null), and with the upstream
\* text as one JSON string when the upstream body is no JSON or is empty.
C8_ForwardVerbatim ==
    (Settled("odoo") /\ last.out.k = "2xx")
        => /\ last.status = 200
           /\ last.out.data.t \in {"obj", "null"} => last.rbody = last.out.data
           /\ last.out.data.t = "text" => last.rbody = [last.out.data EXCEPT !.t = "quoted"]
           /\ last.out.data.t = "empty" =>
                  last.rbody = [last.out.data EXCEPT !.t = "quoted empty"]

C8_Witness ==
    /\ Settled("odoo")
    /\ last.out.k = "2xx"
    /\ last.out.data = Json(Undef, ObjVal("Access Denied"), Undef)
    /\ last.status = 200
    /\ last.rbody = Json(Undef, ObjVal("Access Denied"), Undef)

\* a required member of the login body is missing or empty
MissingOrEmpty(v) == v = Undef \/ v = ""

\* C9, as claimed: a login with the right key in which the target address, db,
\* username or password is missing or empty is answered 400, with no upstream
\* call and the token unchanged.
C9_MissingAnyOfFourIs400 ==
    (Arrived("login") /\ KeyIsSecret
        /\ (\/ ~last.body.cfg
            \/ MissingOrEmpty(last.body.url)
            \/ MissingOrEmpty(last.body.db)
            \/ MissingOrEmpty(last.body.username)
            \/ MissingOrEmpty(last.body.password)))
        => /\ last.status = 400
           /\ last.call = NoCall
           /\ odooSessionCookie = last.prevTok

\* C9, amended: a login with the right key in which a member the variant reads
\* from the request is missing or empty (db, username, password, and in
\* src/server.js also odooConfig.url) is answered 400, with no upstream call and
\* the token unchanged.
C9_MissingRequiredIs400 ==
    (Arrived("login") /\ KeyIsSecret
        /\ (\/ ~last.body.cfg
            \/ (variant = "server" /\ MissingOrEmpty(last.body.url))
            \/ MissingOrEmpty(last.body.db)
            \/ MissingOrEmpty(last.body.username)
            \/ MissingOrEmpty(last.body.password)))
        => /\ last.status = 400
           /\ last.call = NoCall
           /\ odooSessionCookie = last.prevTok

C9_Witness ==
    /\ Arrived("login")
    /\ KeyIsSecret
    /\ last.body.cfg
    /\ last.body.password = ""
    /\ last.status = 400
    /\ last.call = NoCall
    /\ ~NoTokenHeld(odooSessionCookie)

\* C10: when the upstream call of a login or of a forwarded call fails, a
\* non-2xx upstream response is answered with that same status and a transport
\* failure or timeout with 500; the body is a JSON object with an error member
\* and the stored token is unchanged.
C10_FailureStatusMirrorsCause ==
    ((Settled("login") \/ Settled("odoo")) /\ last.out.k \in {"non2xx", "fail"})
        => /\ last.status = (IF last.out.k = "non2xx" THEN last.out.status ELSE 500)
           /\ last.rbody.t = "obj"
           /\ last.rbody.error # NoVal
           /\ odooSessionCookie = last.prevTok

\* the upstream body is an error envelope without a user identifier
ErrorEnvelope(data) ==
    data.t = "obj" /\ data.error.t = "obj" /\ ResultUid(data) \in {Undef, False}

\* C11: a login that upstream answers 2xx with an error envelope and no uid is
\* answered 401, with the upstream error's message as error text when there is
\* one and a fixed text otherwise.
C11_ErrorEnvelopeIs401 ==
    (Settled("login") /\ last.out.k = "2xx" /\ ErrorEnvelope(last.out.data))
        => /\ last.status = 401
           /\ last.rbody.t = "obj"
           /\ last.rbody.error.t = "str"
           /\ last.rbody.error.v # ""
           /\ (last.out.data.error.v \notin {Undef, ""}
                  => last.rbody.error.v = last.out.data.error.v)

\* C12, as claimed: in part_000 a forwarded call with the right key made while
\* ODOO_URL is not set is answered 400 and starts no upstream call.
C12_NoOdooUrlIs400 ==
    (variant = "env" /\ Arrived("odoo") /\ KeyIsSecret /\ ODOO_URL = Undef)
        => /\ last.status = 400
           /\ last.call = NoCall

\* C12, amended: in part_000 a forwarded call with the right key made while
\* ODOO_URL is not set is answered 500 (server configuration error) and starts
\* no upstream call, whatever its body is.
C12_NoOdooUrlIs500 ==
    (variant = "env" /\ Arrived("odoo") /\ KeyIsSecret /\ ODOO_URL = Undef)
        => /\ last.status = 500
           /\ last.rbody.error = StrVal("Server configuration error: Odoo URL not set.")
           /\ last.call = NoCall

C12_Witness ==
    /\ variant = "env"
    /\ Arrived("odoo")
    /\ KeyIsSecret
    /\ ODOO_URL = Undef
    /\ last.body.uid = Undef
    /\ last.status = 500
    /\ last.call = NoCall

\* the token one login response makes, whole
TokenOf(hdr) ==
    IF variant = "server" THEN StrTok(ExpectedPairs(hdr)) ELSE ListTok(hdr)

\* the last step was the end of a login whose upstream response carried cookies
LoginWrote == Settled("login") /\ last.out.k = "2xx" /\ last.out.setCookie # NoHeader

\* C13: under every interleaving of logins and forwarded calls the stored token
\* is empty or the whole token of one login response, and it is the token of
\* the login response with cookies that was processed last: every such
\* response replaces the token by its own, and nothing else changes the token.
C13_LastWriteWins ==
    /\ [](\/ odooSessionCookie = NullTok
          \/ \E hdr \in SetCookieHeaders \ {NoHeader} : odooSessionCookie = TokenOf(hdr))
    /\ [](LoginWrote => odooSessionCookie = TokenOf(last.out.setCookie))
    /\ [][odooSessionCookie' # odooSessionCookie => LoginWrote']_vars

\* a login overwrites the token of another while a third request is under way
C13_Witness ==
    /\ variant = "server"
    /\ LoginWrote
    /\ last.prevTok = StrTok(<<"s", "=", "2", ";", " ", "t", "=", "3">>)
    /\ last.out.setCookie = <<CookieA>>
    /\ odooSessionCookie = StrTok(<<"s", "=", "1">>)
    /\ \E w \in BagToSet(pend) : w.st = "login"

\* C14: no step of a forwarded call, whatever its outcome, changes the stored
\* token: after the step the token is the one held right before it.
C14_OdooNeverWrites ==
    (Arrived("odoo") \/ Settled("odoo")) => odooSessionCookie = last.prevTok

\* a forwarded call whose upstream response carries a Set-Cookie header
C14_Witness ==
    /\ Settled("odoo")
    /\ last.out.k = "2xx"
    /\ last.out.setCookie = <<CookieA>>
    /\ last.prevTok = StrTok(<<"s", "=", "2">>)
    /\ odooSessionCookie = StrTok(<<"s", "=", "2">>)

\* how many times c occurs in the text s
RECURSIVE Count(_, _)
Count(c, s) ==
    IF s = << >> THEN 0
    ELSE (IF Head(s) = c THEN 1 ELSE 0) + Count(c, Tail(s))

\* C15: in src/server.js the token a login stores is the name=value pair of
\* each Set-Cookie value, in the order of the response, joined by "; ": no
\* attribute is in it and each cookie gives one pair, so that the pairs are
\* one more than the separators.
C15_TokenIsPairsJoined ==
    (variant = "server" /\ LoginWrote)
        => /\ odooSessionCookie.t = "str"
           /\ odooSessionCookie.v = ExpectedPairs(last.out.setCookie)
           /\ Count("P", odooSessionCookie.v) = 0
           /\ Count("H", odooSessionCookie.v) = 0
           /\ Count(";", odooSessionCookie.v) = Len(last.out.setCookie) - 1

C15_Witness ==
    /\ variant = "server"
    /\ LoginWrote
    /\ last.prevTok = NullTok
    /\ last.out.setCookie = <<CookieB, CookieC>>
    /\ odooSessionCookie.v = <<"s", "=", "2", ";", " ", "t", "=", "3">>

\* the upstream calls of one kind that are under way
UpstreamCalls(kind) ==
    BagCardinality([w \in {x \in BagToSet(pend) : x.st = kind} |-> CopiesIn(w, pend)])

\* C16: a request starts at most one upstream call, to the path of its route,
\* and only when it arrives; when that call settles, failed or timed out
\* included, the handler ends without starting another.
C16_OneUpstreamCall ==
    [][\A kind \in {"login", "odoo"} :
          /\ UpstreamCalls(kind)' = UpstreamCalls(kind) +
                 (IF last'.kind # kind THEN 0
                  ELSE IF last'.ev = "recv" /\ last'.call # NoCall THEN 1
                  ELSE IF last'.ev \in {"settle", "hang", "framework"} THEN -1
                  ELSE 0)
          /\ (last'.ev = "recv" /\ last'.kind = kind /\ last'.call # NoCall) =>
                 last'.call.path = (IF kind = "login" THEN AuthPath ELSE CallPath)
      ]_vars

\* the only upstream call timed out, the request is answered 500 and no call
\* is under way
C16_Witness ==
    /\ Settled("odoo")
    /\ last.out.k = "fail"
    /\ last.out.message = TimeoutMessage
    /\ last.status = 500
    /\ UpstreamCalls("login") + UpstreamCalls("odoo") = 0

\* C17: every request is answered once and the server goes on serving: a
\* request that starts no upstream call is answered when it arrives, a request
\* whose upstream call has settled is answered then, no request is left
\* without an answer and the process stays up.
C17_EveryRequestAnswered ==
    /\ proc = "up"
    /\ \A w \in BagToSet(pend) : w.st # "hung"
    /\ ((Arrived("login") \/ Arrived("odoo")) /\ ~Dispatched) => last.status > 0
    /\ (Settled("login") \/ Settled("odoo")) => last.status > 0

\* C18: in src/server.js, once a token is held the Session Store never again
\* counts as empty (so that no later forwarded call with a valid key and a url
\* is answered 401 for want of a session).
C18_TokenNeverEmptiedAgain ==
    [][(variant = "server" /\ ~NoTokenHeld(odooSessionCookie))
           => ~NoTokenHeld(odooSessionCookie')]_vars

\* C19: in part_000 a login whose upstream response is 2xx without a uid is
\* answered with error "Authentication failed" and, as details, the upstream
\* error's message, or "Authentication failed" when there is none.
C19_AuthFailureBranch ==
    (variant = "env" /\ Settled("login") /\ last.out.k = "2xx"
         /\ ~(last.out.data.t = "obj" /\ Truthy(ResultUid(last.out.data))))
        => /\ last.ev = "settle"
           /\ last.rbody.t = "obj"
           /\ last.rbody.error = StrVal("Authentication failed")
           /\ last.rbody.details =
                  IF last.out.data.error.t = "obj" /\ Truthy(last.out.data.error.v)
                  THEN last.out.data.error.v
                  ELSE "Authentication failed"

\* C20: in src/server.js an upstream call_kw request that carries a Cookie goes
\* to the address of the login whose response made the stored token.
C20_CookieOnlyToIssuer ==
    (variant = "server" /\ Arrived("odoo") /\ Dispatched /\ last.call.cookie # NoCookie)
        => last.call.base = hist.issuer

=============================================================================
